---------------------------- MODULE Spec2Model ----------------------------
(***************************************************************************)
(* Model of app.py (Background Remover Pro): the resizer, the cached       *)
(* background remover, and the button-driven flow of main().               *)
(***************************************************************************)
EXTENDS Integers, Sequences, FiniteSets, TLC

VARIABLES
  \* the process and one interactive session of main()
  rembg_available,  \* the import of rembg succeeded (lines 8-13)
  cache,            \* entries of st.cache_data for remove_background
  uploaded,         \* the resized image of the current upload, or NoImage
  scriptError,      \* the current run of main() was aborted by an exception
  alpha_matting,    \* the checkbox
  fgSlider,         \* the three slider widgets
  bgSlider,
  erodeSlider,
  pc,               \* where the run of main() stands
  task,             \* the arguments submitted to the executor, or NoTask
  future,           \* the finished call of the worker, or NoCall
  shown,            \* the buffer displayed in col2, or NoImage
  download,         \* the bytes offered by the download button, or NoBytes
  notices,          \* the messages displayed by the current run
  button,           \* st.button returned True in the current run
  presses,          \* removal tasks submitted so far
  \* observations of the calls made
  lastCall,         \* the call of remove_background that finished last in
                    \* the current run, or NoCall
  nCalls,           \* calls of remove_background so far
  callLog,          \* per argument tuple: calls, invocations of remove(),
                    \* of which raised, and the values returned
  inflight,         \* tasks submitted and not yet finished
  runSubmits,       \* tasks submitted by the current run
  runModelCalls,    \* invocations of remove() during the current run
  \* resize_image applied to an arbitrary image
  rImage, rCap, rReq, rOut, rAgain, rPc

appVars == <<rembg_available, cache, uploaded, scriptError, alpha_matting,
             fgSlider, bgSlider, erodeSlider, pc, task, future, shown,
             download, notices, button, presses>>
obsVars == <<lastCall, nCalls, callLog, inflight, runSubmits, runModelCalls>>
resizeVars == <<rImage, rCap, rReq, rOut, rAgain, rPc>>
vars == <<appVars, obsVars, resizeVars>>

\* An image, or a pixel buffer, is [size |-> <<width, height>>, px |-> the
\* picture it was made from, resampled |-> it went through Image.resize,
\* cut |-> the parameters remove() cut it out with, or NoCut].
NoCut == <<FALSE, -1, -1, -1>>
Picture(size, px) ==
  [size |-> size, px |-> px, resampled |-> FALSE, cut |-> NoCut]

\* the absent values
NoImage == Picture(<<0, 0>>, 0)
NoSize == <<-1, -1>>
NoResult == [status |-> "none", image |-> NoImage]
NoTask == [image_array |-> NoImage, p |-> NoCut]
NoCall == [image_array |-> NoImage, p |-> NoCut, value |-> NoImage,
           msgs |-> {}, model |-> FALSE, raised |-> FALSE, exc |-> FALSE,
           hit |-> FALSE]
NoBytes == [png |-> NoImage]

(***************************************************************************)
(* Bounds of the model.                                                    *)
(***************************************************************************)
MaxDim == 50
MaxCap == 4
MaxPresses == 2
MaxCalls == 3
NumBufs == 2

(***************************************************************************)
(* Program constants.                                                      *)
(***************************************************************************)
DefaultMaxSize == 1000
DefaultForeground == 240
DefaultBackground == 10
DefaultErode == 10
ThresholdMax == 255
ErodeMax == 40
MantBits == 53
LimbBits == 14
TopBits == MantBits - 3 * LimbBits

Max(a, b) == IF a >= b THEN a ELSE b

(***************************************************************************)
(* Binary64 arithmetic, as Python evaluates  max_size / max(image.size)    *)
(* and  image.size[i] * ratio.  A positive float is [m, e]: m the 53       *)
(* significand bits, most significant first (m[1] = 1), and the value is   *)
(* 1.m[2]m[3]... * 2^e.                                                    *)
(***************************************************************************)
RECURSIVE ExpUp(_, _, _)
ExpUp(a, b, t) == IF 2 * b > a THEN t ELSE ExpUp(a, 2 * b, t + 1)

RECURSIVE ExpDown(_, _, _)
ExpDown(a, b, s) == IF a >= b THEN s ELSE ExpDown(2 * a, b, s + 1)

\* floor(log2(a / b)) for integers a, b >= 1
FloatExponent(a, b) == IF a >= b THEN ExpUp(a, b, 0) ELSE 0 - ExpDown(a, b, 0)

\* the significand plus one unit in the last place
IncrBits(bits) ==
  LET j == CHOOSE k \in 1..Len(bits) :
             bits[k] = 0 /\ \A i \in (k + 1)..Len(bits) : bits[i] = 1
  IN [i \in 1..Len(bits) |-> IF i < j THEN bits[i] ELSE IF i = j THEN 1 ELSE 0]

\* round-half-even has decided `up`: the rounded float
RoundMant(bits, e, up) ==
  IF ~up THEN [m |-> bits, e |-> e]
  ELSE IF \A i \in 1..Len(bits) : bits[i] = 1
       THEN [m |-> [i \in 1..Len(bits) |-> IF i = 1 THEN 1 ELSE 0], e |-> e + 1]
       ELSE [m |-> IncrBits(bits), e |-> e]

\* the n low bits of x, most significant first
Bits(x, n) == [i \in 1..n |-> (x \div 2^(n - i)) % 2]

\* the number of bits of x, for 1 <= x < 2^30
BitLen(x) == CHOOSE n \in 1..30 : x \div 2^(n - 1) = 1

\* the integer a bit sequence (at most 30 bits) denotes
RECURSIVE BitsValue(_)
BitsValue(s) ==
  IF Len(s) = 0 THEN 0
  ELSE IF Len(s) = 1 THEN s[1]
  ELSE LET h == Len(s) \div 2
       IN BitsValue(SubSeq(s, 1, h)) * 2^(Len(s) - h)
            + BitsValue(SubSeq(s, h + 1, Len(s)))

\* a / b for integers 1 <= a, b < 2^17: the correctly rounded quotient.
\* With A / B = (a / b) / 2^e in [1, 2), long division yields the 53
\* quotient bits in chunks of TopBits, LimbBits, LimbBits, LimbBits.
TrueDiv(a, b) ==
  LET e == FloatExponent(a, b)
      A == IF e >= 0 THEN a ELSE a * 2^(0 - e)
      B == IF e >= 0 THEN b * 2^e ELSE b
      R == 2^LimbBits
      n1 == A * 2^(TopBits - 1)
      n2 == (n1 % B) * R
      n3 == (n2 % B) * R
      n4 == (n3 % B) * R
      bits == Bits(n1 \div B, TopBits) \o Bits(n2 \div B, LimbBits)
                \o Bits(n3 \div B, LimbBits) \o Bits(n4 \div B, LimbBits)
      last == 2 * (n4 % B)
      up == last > B \/ (last = B /\ bits[MantBits] = 1)
  IN RoundMant(bits, e, up)

\* the bits of w * m for a 53-bit significand m and 1 <= w < 2^17,
\* multiplied limb by limb from the least significant limb
MulBits(m, w) ==
  LET R == 2^LimbBits
      l1 == BitsValue(SubSeq(m, 1, TopBits))
      l2 == BitsValue(SubSeq(m, TopBits + 1, TopBits + LimbBits))
      l3 == BitsValue(SubSeq(m, TopBits + LimbBits + 1, TopBits + 2 * LimbBits))
      l4 == BitsValue(SubSeq(m, TopBits + 2 * LimbBits + 1, MantBits))
      s4 == l4 * w
      s3 == l3 * w + s4 \div R
      s2 == l2 * w + s3 \div R
      s1 == l1 * w + s2 \div R
  IN Bits(s1, BitLen(s1)) \o Bits(s2 % R, LimbBits)
       \o Bits(s3 % R, LimbBits) \o Bits(s4 % R, LimbBits)

\* w * f for an integer w >= 1 and a float f: the correctly rounded product
IntTimesFloat(w, f) ==
  LET n == MantBits
      all == MulBits(f.m, w)
      L == Len(all)
      kept == SubSeq(all, 1, n)
      guard == IF L > n THEN all[n + 1] ELSE 0
      sticky == \E i \in (n + 2)..L : all[i] = 1
      up == guard = 1 /\ (sticky \/ kept[n] = 1)
  IN RoundMant(kept, f.e + (L - n), up)

\* int(f): truncation toward zero of a positive float below 2^30
FloatToInt(f) == IF f.e < 0 THEN 0 ELSE BitsValue(SubSeq(f.m, 1, f.e + 1))

\* f < 1
FloatLtOne(f) == f.e < 0

(***************************************************************************)
(* resize_image.                                                           *)
(***************************************************************************)
\* (mutant) the sides rounded to the nearest integer
NewSizeRounded(size, max_size) ==
  LET m == Max(size[1], size[2])
  IN <<(2 * size[1] * max_size + m) \div (2 * m),
       (2 * size[2] * max_size + m) \div (2 * m)>>

\* the size handed to image.resize
NewSize(size, max_size) ==
  LET ratio == TrueDiv(max_size, Max(size[1], size[2]))
  IN <<FloatToInt(IntTimesFloat(size[1], ratio)),
       FloatToInt(IntTimesFloat(size[2], ratio))>>

\* Image.resize(size, LANCZOS): a side below 1 is refused by the imaging
\* library or yields an empty image, depending on its build (lib)
PILResize(image, size, lib) ==
  IF (size[1] < 1 \/ size[2] < 1) /\ lib = "refuses"
  THEN [status |-> "raised", image |-> image]
  ELSE [status |-> "ok",
        image |-> [image EXCEPT !.size = size, !.resampled = TRUE]]

\* (mutant) the ratio is applied whether or not it is below 1
resize_image_always(image, max_size, lib) ==
  PILResize(image, NewSize(image.size, max_size), lib)

resize_image(image, max_size, lib) ==
  LET ratio == TrueDiv(max_size, Max(image.size[1], image.size[2]))
  IN IF FloatLtOne(ratio)
     THEN PILResize(image, NewSize(image.size, max_size), lib)
     ELSE [status |-> "ok", image |-> image]

LibBuilds == {"refuses", "empty"}

(***************************************************************************)
(* remove_background and its cache.  A parameter tuple is                  *)
(* <<alpha_matting, foreground threshold, background threshold, erode>>.   *)
(***************************************************************************)
ModelOutcomes == {"ok", "raise"}

\* rembg's remove(image_array, session, ...) when it returns: a buffer of the
\* same size whose content depends on the input and on the parameters
remove(image_array, p) ==
  [image_array EXCEPT !.cut = p]

\* (mutant) no try/except around remove(): the exception leaves the function
remove_background_nocatch(image_array, p, outcome) ==
  IF ~rembg_available
  THEN [value |-> image_array, msgs |-> {"rembg_not_available"},
        model |-> FALSE, raised |-> FALSE, exc |-> FALSE]
  ELSE IF outcome = "raise"
       THEN [value |-> NoImage, msgs |-> {},
             model |-> TRUE, raised |-> TRUE, exc |-> TRUE]
       ELSE [value |-> remove(image_array, p), msgs |-> {},
             model |-> TRUE, raised |-> FALSE, exc |-> FALSE]

\* the body of remove_background: the value returned, the st.error messages
\* it emits, whether remove() was invoked, whether remove() raised, and
\* whether an exception leaves the function
remove_background(image_array, p, outcome) ==
  IF ~rembg_available
  THEN [value |-> image_array, msgs |-> {"rembg_not_available"},
        model |-> FALSE, raised |-> FALSE, exc |-> FALSE]
  ELSE IF outcome = "raise"
       THEN [value |-> image_array, msgs |-> {"error_removing_background"},
             model |-> TRUE, raised |-> TRUE, exc |-> FALSE]
       ELSE [value |-> remove(image_array, p), msgs |-> {},
             model |-> TRUE, raised |-> FALSE, exc |-> FALSE]

\* (mutant) the cache keyed on the image alone
CacheKeyImageOnly(image_array, p) == <<image_array>>

\* the key of st.cache_data: every argument of the call
CacheKey(image_array, p) == <<image_array, p>>

\* (mutant) a fail-open result is not stored
cached_remove_background_skipfail(c, image_array, p, outcome, replay) ==
  LET k == CacheKey(image_array, p)
  IN IF k \in DOMAIN c
     THEN [value |-> c[k].value, msgs |-> IF replay THEN c[k].msgs ELSE {},
           model |-> FALSE, raised |-> FALSE, exc |-> FALSE, hit |-> TRUE,
           cache |-> c]
     ELSE LET r == remove_background(image_array, p, outcome)
          IN [value |-> r.value, msgs |-> r.msgs, model |-> r.model,
              raised |-> r.raised, exc |-> r.exc, hit |-> FALSE,
              cache |-> IF r.exc \/ r.raised THEN c
                        ELSE c @@ (k :> [value |-> r.value, msgs |-> r.msgs])]

\* @st.cache_data around remove_background, on the entries c.  A hit returns
\* the stored value without running the body; whether the messages the
\* stored call emitted are shown again is left to the hosting cache
\* (replay).  A miss runs the body and stores what it returned.
cached_remove_background(c, image_array, p, outcome, replay) ==
  LET k == CacheKey(image_array, p)
  IN IF k \in DOMAIN c
     THEN [value |-> c[k].value, msgs |-> IF replay THEN c[k].msgs ELSE {},
           model |-> FALSE, raised |-> FALSE, exc |-> FALSE, hit |-> TRUE,
           cache |-> c]
     ELSE LET r == remove_background(image_array, p, outcome)
          IN [value |-> r.value, msgs |-> r.msgs, model |-> r.model,
              raised |-> r.raised, exc |-> r.exc, hit |-> FALSE,
              cache |-> IF r.exc THEN c
                        ELSE c @@ (k :> [value |-> r.value, msgs |-> r.msgs])]

\* one call of the cached remove_background, with what it is observed to do
RunCall(image_array, p, outcome, replay) ==
  LET r == cached_remove_background(cache, image_array, p, outcome, replay)
      a == <<image_array, p>>
      old == IF a \in DOMAIN callLog THEN callLog[a]
             ELSE [calls |-> 0, model |-> 0, raised |-> 0, values |-> {}]
      new == [calls |-> old.calls + 1,
              model |-> old.model + (IF r.model THEN 1 ELSE 0),
              raised |-> old.raised + (IF r.raised THEN 1 ELSE 0),
              values |-> old.values \cup {r.value}]
  IN /\ cache' = r.cache
     /\ lastCall' = [image_array |-> image_array, p |-> p, value |-> r.value,
                     msgs |-> r.msgs, model |-> r.model, raised |-> r.raised,
                     exc |-> r.exc, hit |-> r.hit]
     /\ nCalls' = nCalls + 1
     /\ callLog' = IF a \in DOMAIN callLog
                   THEN [callLog EXCEPT ![a] = new]
                   ELSE callLog @@ (a :> new)

(***************************************************************************)
(* resize_image on its own: any image, any cap.                            *)
(***************************************************************************)
\* sides above the default cap, for the cases of line 58
BigDims == {531, 1000, 1001, 1062, 1500, 2000}
Dims == (1..MaxDim) \cup BigDims
Caps == (1..MaxCap) \cup {DefaultMaxSize}

AppIdle ==
  /\ cache = << >>
  /\ uploaded = NoImage
  /\ scriptError = FALSE
  /\ alpha_matting = FALSE
  /\ fgSlider = DefaultForeground
  /\ bgSlider = DefaultBackground
  /\ erodeSlider = DefaultErode
  /\ pc = "idle"
  /\ task = NoTask
  /\ future = NoCall
  /\ shown = NoImage
  /\ download = NoBytes
  /\ notices = {}
  /\ button = FALSE
  /\ presses = 0
  /\ lastCall = NoCall
  /\ nCalls = 0
  /\ callLog = << >>
  /\ inflight = 0
  /\ runSubmits = 0
  /\ runModelCalls = 0

ResizeIdle ==
  /\ rImage = NoImage /\ rCap = DefaultMaxSize /\ rReq = NoSize
  /\ rOut = NoResult /\ rAgain = NoResult /\ rPc = "off"

InitResize ==
  /\ rembg_available = TRUE
  /\ AppIdle
  /\ rImage \in {Picture(size, 1) : size \in Dims \X Dims}
  /\ rCap \in Caps
  /\ rReq = NoSize /\ rOut = NoResult /\ rAgain = NoResult
  /\ rPc = "start"

Resize ==
  /\ rPc = "start"
  /\ \E lib \in LibBuilds : rOut' = resize_image(rImage, rCap, lib)
  /\ rReq' = IF Max(rImage.size[1], rImage.size[2]) > rCap
             THEN NewSize(rImage.size, rCap) ELSE NoSize
  /\ rPc' = "resized"
  /\ UNCHANGED <<appVars, obsVars, rImage, rCap, rAgain>>

\* the image just returned is resized once more with the same cap
ResizeAgain ==
  /\ rPc = "resized"
  /\ rOut.status = "ok"
  /\ Max(rOut.image.size[1], rOut.image.size[2]) >= 1
  /\ \E lib \in LibBuilds : rAgain' = resize_image(rOut.image, rCap, lib)
  /\ rPc' = "again"
  /\ UNCHANGED <<appVars, obsVars, rImage, rCap, rReq, rOut>>

NextResize == Resize \/ ResizeAgain

SpecResize == InitResize /\ [][NextResize]_vars

(***************************************************************************)
(* Calls of the cached remove_background with arbitrary arguments.         *)
(***************************************************************************)
FnImages == {Picture(<<4, 3>>, d) : d \in 1..NumBufs}
FnParams == {<<FALSE, DefaultForeground, DefaultBackground, DefaultErode>>,
             <<TRUE, DefaultForeground, DefaultBackground, DefaultErode>>,
             <<TRUE, 200, 20, 5>>,
             <<FALSE, 200, 20, 5>>}

InitFn ==
  /\ rembg_available \in BOOLEAN
  /\ AppIdle
  /\ ResizeIdle

Call(image_array, p, outcome, replay) ==
  /\ nCalls < MaxCalls
  /\ RunCall(image_array, p, outcome, replay)
  /\ UNCHANGED <<rembg_available, uploaded, scriptError, alpha_matting,
                 fgSlider, bgSlider, erodeSlider, pc, task, future, shown,
                 download, notices, button, presses, inflight, runSubmits,
                 runModelCalls, resizeVars>>

NextFn ==
  \E image_array \in FnImages, p \in FnParams,
     outcome \in ModelOutcomes, replay \in BOOLEAN :
    Call(image_array, p, outcome, replay)

SpecFn == InitFn /\ [][NextFn]_vars

(***************************************************************************)
(* main(): one session.  Every interaction reruns the script from the top  *)
(* with the widgets' current values.                                       *)
(***************************************************************************)
UploadChoices == {Picture(<<2000, 1000>>, 1),
                  Picture(<<2000, 1>>, 2)}
FgChoices == {200, DefaultForeground}
BgChoices == {DefaultBackground, 20}
ErodeChoices == {5, DefaultErode}

\* line 58 for each file that can be chosen
Resized ==
  [file \in UploadChoices, lib \in LibBuilds |->
     resize_image(file, DefaultMaxSize, lib)]

\* line 49-50: the warning every run shows while rembg is missing
Standing == IF rembg_available THEN {} ELSE {"rembg_disabled_warning"}

\* (mutant) the sliders' values are passed whatever the checkbox says
EffectiveParamsSliders ==
  <<alpha_matting, fgSlider, bgSlider, erodeSlider>>

\* lines 62-70: the parameters the run computes from the widgets
EffectiveParams ==
  IF alpha_matting
  THEN <<TRUE, fgSlider, bgSlider, erodeSlider>>
  ELSE <<FALSE, DefaultForeground, DefaultBackground, DefaultErode>>

\* the controls of lines 61-72 are on the page
ControlsShown == pc = "idle" /\ uploaded # NoImage /\ ~scriptError

\* a run in which the button is not pressed: nothing is drawn in col2
PlainRun ==
  /\ button' = FALSE
  /\ shown' = NoImage
  /\ download' = NoBytes
  /\ notices' = Standing
  /\ runSubmits' = 0
  /\ runModelCalls' = 0
  /\ future' = NoCall
  /\ lastCall' = NoCall
  /\ UNCHANGED <<rembg_available, cache, pc, task, presses,
                 nCalls, callLog, inflight, resizeVars>>

Init ==
  /\ rembg_available \in BOOLEAN
  /\ AppIdle
  /\ ResizeIdle

\* a file is chosen: lines 56-59
Upload(file, lib) ==
  /\ pc = "idle"
  /\ LET r == Resized[file, lib]
     IN /\ uploaded' = r.image
        /\ scriptError' = (r.status = "raised")
  /\ PlainRun
  /\ UNCHANGED <<alpha_matting, fgSlider, bgSlider, erodeSlider>>

\* the file is removed from the uploader
ClearUpload ==
  /\ pc = "idle"
  /\ uploaded # NoImage
  /\ uploaded' = NoImage
  /\ scriptError' = FALSE
  /\ PlainRun
  /\ UNCHANGED <<alpha_matting, fgSlider, bgSlider, erodeSlider>>

ToggleAlpha ==
  /\ ControlsShown
  /\ alpha_matting' = ~alpha_matting
  /\ PlainRun
  /\ UNCHANGED <<uploaded, scriptError, fgSlider, bgSlider, erodeSlider>>

SetForeground(v) ==
  /\ ControlsShown /\ alpha_matting
  /\ fgSlider' = v
  /\ PlainRun
  /\ UNCHANGED <<uploaded, scriptError, alpha_matting, bgSlider, erodeSlider>>

SetBackground(v) ==
  /\ ControlsShown /\ alpha_matting
  /\ bgSlider' = v
  /\ PlainRun
  /\ UNCHANGED <<uploaded, scriptError, alpha_matting, fgSlider, erodeSlider>>

SetErode(v) ==
  /\ ControlsShown /\ alpha_matting
  /\ erodeSlider' = v
  /\ PlainRun
  /\ UNCHANGED <<uploaded, scriptError, alpha_matting, fgSlider, bgSlider>>

\* (mutant) the button submits the task without looking at rembg_available
PressNoGuard ==
  /\ ControlsShown
  /\ presses < MaxPresses
  /\ button' = TRUE
  /\ shown' = NoImage
  /\ download' = NoBytes
  /\ runModelCalls' = 0
  /\ notices' = Standing
  /\ task' = [image_array |-> uploaded, p |-> EffectiveParams]
  /\ future' = NoCall
  /\ pc' = "blocked"
  /\ presses' = presses + 1
  /\ inflight' = inflight + 1
  /\ runSubmits' = 1
  /\ lastCall' = NoCall
  /\ UNCHANGED <<rembg_available, cache, uploaded, scriptError,
                 alpha_matting, fgSlider, bgSlider, erodeSlider,
                 nCalls, callLog, resizeVars>>

\* the button is pressed: lines 72-86.  Without rembg the run only shows an
\* error; with it, one call is submitted to the executor and the run waits.
Press ==
  /\ ControlsShown
  /\ button' = TRUE
  /\ shown' = NoImage
  /\ download' = NoBytes
  /\ runModelCalls' = 0
  /\ IF ~rembg_available
     THEN /\ notices' = Standing \cup {"not_available_missing_dependencies"}
          /\ runSubmits' = 0
          /\ UNCHANGED <<pc, task, future, presses, inflight>>
     ELSE /\ presses < MaxPresses
          /\ notices' = Standing
          /\ task' = [image_array |-> uploaded, p |-> EffectiveParams]
          /\ future' = NoCall
          /\ pc' = "blocked"
          /\ presses' = presses + 1
          /\ inflight' = inflight + 1
          /\ runSubmits' = 1
  /\ lastCall' = NoCall
  /\ UNCHANGED <<rembg_available, cache, uploaded, scriptError,
                 alpha_matting, fgSlider, bgSlider, erodeSlider,
                 nCalls, callLog, resizeVars>>

\* (mutant) a call in which remove() raised is run again
WorkerRetry(outcome, replay) ==
  /\ pc = "blocked"
  /\ RunCall(task.image_array, task.p, outcome, replay)
  /\ future' = lastCall'
  /\ notices' = notices \cup lastCall'.msgs
  /\ runModelCalls' = runModelCalls + (IF lastCall'.model THEN 1 ELSE 0)
  /\ IF lastCall'.raised
     THEN UNCHANGED <<inflight, pc>>
     ELSE inflight' = inflight - 1 /\ pc' = "returned"
  /\ UNCHANGED <<rembg_available, uploaded, scriptError, alpha_matting,
                 fgSlider, bgSlider, erodeSlider, task, shown, download,
                 button, presses, runSubmits, resizeVars>>

\* the worker thread runs the submitted call to its end: lines 79-86
Worker(outcome, replay) ==
  /\ pc = "blocked"
  /\ RunCall(task.image_array, task.p, outcome, replay)
  /\ future' = lastCall'
  /\ notices' = notices \cup lastCall'.msgs
  /\ runModelCalls' = runModelCalls + (IF lastCall'.model THEN 1 ELSE 0)
  /\ inflight' = inflight - 1
  /\ pc' = "returned"
  /\ UNCHANGED <<rembg_available, uploaded, scriptError, alpha_matting,
                 fgSlider, bgSlider, erodeSlider, task, shown, download,
                 button, presses, runSubmits, resizeVars>>

\* the PNG bytes of a buffer: lines 91-93
PngBytes(buffer) == [png |-> buffer]

\* future.result() returns or raises, and the run draws: lines 87-101
Render ==
  /\ pc = "returned"
  /\ IF future.exc
     THEN /\ notices' = notices \cup {"an_error_occurred"}
          /\ UNCHANGED <<shown, download>>
     ELSE /\ shown' = future.value
          /\ download' = PngBytes(future.value)
          /\ UNCHANGED notices
  /\ pc' = "idle"
  /\ task' = NoTask
  /\ UNCHANGED <<rembg_available, cache, uploaded, scriptError,
                 alpha_matting, fgSlider, bgSlider, erodeSlider, future,
                 button, presses, obsVars, resizeVars>>

Next ==
  \/ \E file \in UploadChoices, lib \in LibBuilds : Upload(file, lib)
  \/ ClearUpload
  \/ ToggleAlpha
  \/ \E v \in FgChoices : SetForeground(v)
  \/ \E v \in BgChoices : SetBackground(v)
  \/ \E v \in ErodeChoices : SetErode(v)
  \/ Press
  \/ \E outcome \in ModelOutcomes, replay \in BOOLEAN : Worker(outcome, replay)
  \/ Render

Spec == Init /\ [][Next]_vars

\* the states of the page
UIState ==
  IF uploaded = NoImage THEN "Idle"
  ELSE IF pc # "idle" THEN "Processing"
  ELSE IF shown # NoImage THEN "Result"
  ELSE "Loaded"

(***************************************************************************)
(* Claims about the cached remove_background, checked under SpecFn.        *)
(***************************************************************************)
\* C1: when rembg is available and remove() raises during a call, no
\* exception leaves remove_background, the call returns exactly the buffer it
\* was given, and an error message is recorded.
C1_FailOpen ==
  (lastCall # NoCall /\ lastCall.raised) =>
    /\ rembg_available
    /\ ~lastCall.exc
    /\ lastCall.value = lastCall.image_array
    /\ "error_removing_background" \in lastCall.msgs

\* a call in which remove() raised, after an earlier call
C1_Witness ==
  /\ nCalls >= 2
  /\ lastCall.raised
  /\ lastCall.value = lastCall.image_array

\* C2: calls with the same buffer and the same parameters all return the
\* same value and invoke remove() at most once between them; the value is
\* one computed from those very arguments, and with rembg available the
\* first call of every argument tuple invokes remove() itself, whatever
\* other tuples are cached.
C2_CacheCorrect ==
  \A a \in DOMAIN callLog :
    /\ Cardinality(callLog[a].values) = 1
    /\ callLog[a].model <= 1
    /\ callLog[a].values \subseteq {a[1], remove(a[1], a[2])}
    /\ rembg_available => callLog[a].model = 1

\* one tuple called twice with a single invocation, and a tuple with the
\* same buffer and other parameters computed on its own
C2_Witness ==
  \E a \in DOMAIN callLog, b \in DOMAIN callLog :
    /\ a[1] = b[1] /\ a[2] # b[2]
    /\ callLog[a].calls = 2 /\ callLog[a].model = 1
    /\ callLog[b].model = 1
    /\ callLog[a].values # callLog[b].values

\* C4 as stated: with rembg unavailable, every call returns the buffer it
\* was given, records a message for that call, and never invokes remove().
\* The message of a repeated call depends on replay, which the source
\* leaves to the hosting cache.
C4_EveryCallWarns ==
  (~rembg_available /\ lastCall # NoCall) =>
    /\ lastCall.value = lastCall.image_array
    /\ ~lastCall.model
    /\ lastCall.msgs # {}

C8_Parameters ==
  LET expected == IF alpha_matting
                  THEN <<TRUE, fgSlider, bgSlider, erodeSlider>>
                  ELSE <<FALSE, DefaultForeground, DefaultBackground,
                         DefaultErode>>
  IN /\ pc = "blocked" => task.p = expected
     /\ pc = "returned" => (lastCall.p = expected /\ future.p = expected)
     /\ pc # "idle" =>
          /\ task.p[2] \in 0..ThresholdMax
          /\ task.p[3] \in 0..ThresholdMax
          /\ task.p[4] \in 0..ErodeMax
          /\ task.image_array = uploaded

\* a call made with the checkbox off after all three sliders were moved
C8_Witness ==
  /\ pc = "returned"
  /\ ~alpha_matting
  /\ fgSlider = 200 /\ bgSlider = 20 /\ erodeSlider = 5
  /\ lastCall.p = <<FALSE, DefaultForeground, DefaultBackground, DefaultErode>>

\* C9: a press with rembg available submits exactly one call; at most one
\* task is in flight; nothing is displayed or offered for download while it
\* runs; what is displayed is what that call returned; and a call in which
\* remove() raised is not made again: every press accounts for one call.
C9_TaskRunner ==
  /\ inflight = (IF pc = "blocked" THEN 1 ELSE 0)
  /\ (button /\ rembg_available) => runSubmits = 1
  /\ runSubmits <= 1
  /\ runModelCalls <= 1
  /\ nCalls = presses - inflight
  /\ pc = "blocked" =>
       (shown = NoImage /\ download = NoBytes /\ future = NoCall)
  /\ pc = "returned" => (shown = NoImage /\ download = NoBytes)
  /\ shown # NoImage =>
       (pc = "idle" /\ future # NoCall /\ shown = future.value
          /\ download = PngBytes(future.value))

\* a press whose call failed open: the input is displayed after one call
C9_Witness ==
  /\ pc = "idle" /\ button
  /\ future.raised
  /\ runModelCalls = 1
  /\ shown = uploaded

\* C10: once a call has failed open (remove() raised and the input came
\* back), every call with the same buffer and parameters returns that same
\* input buffer and remove() is not invoked for them again.
C10_FailOpenMemoized ==
  \A a \in DOMAIN callLog :
    callLog[a].raised >= 1 =>
      /\ callLog[a].values = {a[1]}
      /\ callLog[a].model = 1
      /\ CacheKey(a[1], a[2]) \in DOMAIN cache
      /\ cache[CacheKey(a[1], a[2])].value = a[1]

\* the user presses again after a failed attempt and is served the
\* unprocessed input from the cache
C10_Witness ==
  /\ pc = "idle" /\ button
  /\ future.hit
  /\ shown = uploaded
  /\ \E a \in DOMAIN callLog :
       /\ a = <<future.image_array, future.p>>
       /\ callLog[a].raised = 1
       /\ callLog[a].calls = 2

(***************************************************************************)
(* Claims about resize_image, checked under SpecResize.                    *)
(***************************************************************************)
RLong == Max(rImage.size[1], rImage.size[2])
Downscaled == rPc \in {"resized", "again"} /\ RLong > rCap
Kept == rPc \in {"resized", "again"} /\ RLong <= rCap

\* out is n / d rounded to a nearest integer (either way on a tie)
NearestOf(out, n, d) == 2 * out * d - 2 * n <= d /\ 2 * n - 2 * out * d <= d

\* out is n / d truncated, where a quotient that is a whole number may come
\* out one lower (the float product can fall just below it)
TruncatedOf(out, n, d) ==
  IF n % d = 0 THEN out \in {n \div d, n \div d - 1} ELSE out = n \div d

\* C5 as stated: a downscaled image has each side scaled by cap / max(side)
\* and rounded to the nearest integer.  (Stated for the results that have
\* both sides >= 1, so that a violation is one of rounding alone.)
C5_RoundedToNearest ==
  (Downscaled /\ rOut.status = "ok"
     /\ rOut.image.size[1] >= 1 /\ rOut.image.size[2] >= 1)
    => /\ NearestOf(rOut.image.size[1], rImage.size[1] * rCap, RLong)
       /\ NearestOf(rOut.image.size[2], rImage.size[2] * rCap, RLong)

\* C5 amended: for an image with max(width, height) > cap, the size that
\* resize_image asks of Image.resize, and the size of the image returned,
\* has each side scaled by cap / max(side) and truncated toward zero, not
\* rounded; a side whose exact scaled value is a whole number comes out as
\* that number or one less.
C5_Truncated ==
  Downscaled =>
    /\ rReq # NoSize
    /\ TruncatedOf(rReq[1], rImage.size[1] * rCap, RLong)
    /\ TruncatedOf(rReq[2], rImage.size[2] * rCap, RLong)
    /\ rOut.status = "ok" => rOut.image.size = rReq

\* a downscale whose short side truncates below the nearest integer
C5_Witness ==
  /\ Downscaled /\ rOut.status = "ok"
  /\ rImage.size = <<1500, 1000>> /\ rCap = DefaultMaxSize
  /\ rOut.image.size = <<1000, 666>>

\* C6 as stated: for every image with both sides >= 1 and every cap >= 1,
\* resize_image completes normally and returns an image with both sides
\* >= 1.
C6_CompletesWithPositiveSides ==
  rPc \in {"resized", "again"} =>
    /\ rOut.status = "ok"
    /\ rOut.image.size[1] >= 1
    /\ rOut.image.size[2] >= 1

\* C7: an image with max(width, height) <= cap is returned unchanged (same
\* size, same content), and resizing it again with the same cap changes
\* nothing either.
C7_Identity ==
  Kept =>
    /\ rOut = [status |-> "ok", image |-> rImage]
    /\ rReq = NoSize
    /\ rPc = "again" => rAgain = [status |-> "ok", image |-> rImage]

\* an image exactly at the cap, and one well below it, resized twice
C7_Witness ==
  /\ rPc = "again" /\ Kept
  /\ RLong = rCap
  /\ rAgain.image = rImage

=============================================================================
